---- MODULE Spec2Model ----
(***************************************************************************)
(* A model of visualiser.py: the VideoGenerator class, which keeps a       *)
(* colour table, a per-run frame directory and a frame counter, saves one  *)
(* image per frame and calls an external encoder (ffmpeg) twice to         *)
(* assemble the frames into a GIF.                                         *)
(*                                                                         *)
(* Strings that the code inspects character by character (path segments,   *)
(* glob patterns, file names) are sequences of one-character strings.      *)
(* Numbers that the code divides are exact rationals [n, d] in lowest      *)
(* terms.                                                                  *)
(***************************************************************************)
EXTENDS Integers, Sequences, FiniteSets, TLC

VARIABLES
    fs,             \* frame directories on disk: <<output_folder, name>> -> (file name -> id of the instance that wrote it)
    palette_png,    \* generated_palette.png of each run directory: the row of colours drawn
    figs,           \* pyplot's open figures, the current one last (process-wide)
    vg,             \* the live VideoGenerator instance, or NoInstance
    caller_scheme,  \* the caller's colour-scheme mapping, which it passes to the constructor
    printed,        \* print_frame calls completed on the live instance
    cleared,        \* whether the caller itself has called clear_frame_folder on the live instance
    next_id,        \* identity of the next instance constructed
    pc,             \* position inside print_video: "idle" outside it
    pv,             \* record of the live instance's latest print_video call, or NoCall
    last,           \* the operation that completed last
    probe           \* two frame numbers and, once formatted, their file names

vars == <<fs, palette_png, figs, vg, caller_scheme, printed, cleared, next_id, pc, pv, last, probe>>

----------------------------------------------------------------------------
(* Bounds of the model *)

MaxInstances == 2   \* instances constructed one after the other
MaxFrames == 2      \* print_frame calls per instance
MaxFigs == 1        \* figures open at once
MaxLines == 1       \* lines drawn on one figure
MaxCell == 1        \* largest cell value of a frame
MaxKey == 3         \* largest key of a colour scheme
SampleRadius == 1   \* frame numbers sampled this close to each power of ten

(* Program constants *)

FrameDigits == 9    \* the width of {self.frame_count:09d}
ColourScale == 255  \* v / 255

NoInstance == [id |-> 0]
NoCall == [result |-> "none"]
NoProbe == [i |-> 0, j |-> 0, out |-> <<>>]

----------------------------------------------------------------------------
(* Numbers and colours *)

Min(a, b) == IF a < b THEN a ELSE b
Max(a, b) == IF a > b THEN a ELSE b

RECURSIVE GCD(_, _)
GCD(a, b) == IF b = 0 THEN a ELSE GCD(b, a % b)

DivMut(a, b) == [n |-> a \div b, d |-> 1]

\* The quotient a / b of Python's true division, exactly.
Div(a, b) == LET g == GCD(a, b) IN [n |-> a \div g, d |-> b \div g]

IntNum(k) == [n |-> k, d |-> 1]

Tuple(r, g, b) == [kind |-> "tuple", v |-> <<IntNum(r), IntNum(g), IntNum(b)>>]
Other(s) == [kind |-> "other", v |-> s]

\* The (0, 0, 0) of the default colour scheme and of colour_scheme.get(i, (0, 0, 0)).
Black == Tuple(0, 0, 0)

DefaultScheme == (0 :> Black)

SchemeValues == {Tuple(0, 0, 0), Tuple(255, 0, 0), Tuple(51, 102, 204), Other("red")}

Schemes ==
    UNION {[K -> SchemeValues] : K \in (SUBSET (0..MaxKey)) \ {{}}}

\* tuple(v / 255 for v in tup) when tup is a tuple, tup itself otherwise.
Normalise(tup) ==
    IF tup.kind = "tuple"
    THEN [kind |-> "tuple",
          v |-> [i \in DOMAIN tup.v |-> Div(tup.v[i].n, ColourScale * tup.v[i].d)]]
    ELSE tup

NormaliseScheme(scheme) == [k \in DOMAIN scheme |-> Normalise(scheme[k])]

MaxOf(S) == CHOOSE m \in S : \A x \in S : x <= m

create_colormapMut(colour_scheme) ==
    [i \in 1..Cardinality(DOMAIN colour_scheme) |->
        IF (i - 1) \in DOMAIN colour_scheme THEN colour_scheme[i - 1] ELSE Black]

\* colors[i] for i in range(max_index + 1); entry i of the table is element i + 1.
create_colormap(colour_scheme) ==
    [i \in 1..(MaxOf(DOMAIN colour_scheme) + 1) |->
        IF (i - 1) \in DOMAIN colour_scheme THEN colour_scheme[i - 1] ELSE Black]

\* cmap(cell) for an integer cell: a direct index into the table, clipped to it.
CmapInt(cmap, cell) == cmap[Min(Max(cell, 0), Len(cmap) - 1) + 1]

\* imshow(grid, cmap=cmap) for the cell of value v in a grid whose values span
\* 0..n-1: the value is scaled linearly onto [0, 1] (onto 0 when the span is
\* empty), and the scaled value x selects entry floor(x * N), the last entry
\* for x = 1, of a table of N entries.
CmapScaled(cmap, v, n) ==
    LET N == Len(cmap)
        idx == IF n = 1 THEN 0
               ELSE IF v = n - 1 THEN N - 1
               ELSE (v * N) \div (n - 1)
    IN cmap[idx + 1]

\* The row generate_palette draws: grid = [[0, ..., n_colours - 1]].
generate_palette(cmap, n_colours) ==
    [c \in 1..n_colours |-> CmapScaled(cmap, c - 1, n_colours)]

----------------------------------------------------------------------------
(* File names *)

Digit(d) == <<"0", "1", "2", "3", "4", "5", "6", "7", "8", "9">>[d + 1]

RECURSIVE Decimal(_)
Decimal(n) == IF n < 10 THEN <<Digit(n)>> ELSE Append(Decimal(n \div 10), Digit(n % 10))

RECURSIVE PadLeft(_, _)
PadLeft(s, width) == IF Len(s) >= width THEN s ELSE PadLeft(<<"0">> \o s, width)

FrameFileNameMut(n) == Decimal(n) \o <<".", "p", "n", "g">>

\* f"{self.frame_count:09d}.png"
FrameFileName(n) == PadLeft(Decimal(n), FrameDigits) \o <<".", "p", "n", "g">>

\* Code points of the characters of a frame file name.
Ord(c) ==
    CASE c = "." -> 46
      [] c = "g" -> 103
      [] c = "n" -> 110
      [] c = "p" -> 112
      [] OTHER -> 48 + (CHOOSE d \in 0..9 : Digit(d) = c)

\* a < b for strings: character-wise, a proper prefix first.
RECURSIVE LexLess(_, _)
LexLess(a, b) ==
    IF b = <<>> THEN FALSE
    ELSE IF a = <<>> THEN TRUE
    ELSE IF Head(a) = Head(b) THEN LexLess(Tail(a), Tail(b))
    ELSE Ord(Head(a)) < Ord(Head(b))

RECURSIVE Pow10(_)
Pow10(e) == IF e = 0 THEN 1 ELSE 10 * Pow10(e - 1)

\* Frame numbers near every power of ten that a counter of FrameDigits digits
\* can hold: where the number of significant digits changes.
FrameSamples ==
    {n \in {Pow10(e) + d : e \in 0..FrameDigits, d \in (-SampleRadius)..SampleRadius} :
        n >= 1 /\ n <= Pow10(FrameDigits) - 1}

----------------------------------------------------------------------------
(* Paths and glob *)

Folders == {<<"v">>, <<"[", "v", "]">>}
Names == {<<"t">>}

\* Position in pat of the "]" that closes the class opened by pat[1] = "[",
\* 0 when none does. A "]" right after the "[" is a member of the class.
ClassEnd(pat) ==
    LET closing == {j \in 3..Len(pat) : pat[j] = "]"}
    IN IF closing = {} THEN 0 ELSE CHOOSE j \in closing : \A k \in closing : j <= k

\* fnmatch of one path segment: "*" matches any run of characters, "?" any one
\* character, "[seq]" any one character of seq, an unclosed "[" itself, and
\* every other character itself. (The alphabet holds no "!" and no "-".)
RECURSIVE FnMatch(_, _)
FnMatch(pat, s) ==
    IF pat = <<>> THEN s = <<>>
    ELSE LET c == Head(pat)
             close == ClassEnd(pat)
         IN CASE c = "*" ->
                    FnMatch(Tail(pat), s) \/ (s # <<>> /\ FnMatch(pat, Tail(s)))
              [] c = "?" ->
                    s # <<>> /\ FnMatch(Tail(pat), Tail(s))
              [] c = "[" /\ close # 0 ->
                    /\ s # <<>>
                    /\ Head(s) \in {pat[k] : k \in 2..(close - 1)}
                    /\ FnMatch(SubSeq(pat, close + 1, Len(pat)), Tail(s))
              [] OTHER ->
                    s # <<>> /\ Head(s) = c /\ FnMatch(Tail(pat), Tail(s))

PngPattern == <<"*", ".", "p", "n", "g">>

\* The frame directory of an instance: f"{output_folder}/{name}/{frame_folder}".
FrameDir(g) == <<g.output_folder, g.name>>

\* glob.has_magic: a path segment that glob reads as a pattern, not as a name.
HasMagic(seg) == \E i \in 1..Len(seg) : seg[i] \in {"*", "?", "["}

\* glob._ishidden: a name or pattern that begins with a dot.
IsHidden(seg) == seg # << >> /\ Head(seg) = "."

\* One path segment of the glob against one existing entry: a segment without
\* pattern characters names the entry itself; a pattern is matched by fnmatch,
\* and matches no entry that begins with a dot unless it begins with one too.
GlobSegment(pat, entry) ==
    IF HasMagic(pat)
    THEN (IsHidden(pat) \/ ~IsHidden(entry)) /\ FnMatch(pat, entry)
    ELSE entry = pat

\* glob.glob(f"{frame_path}/*.png"), segment by segment against the entries
\* that exist. The result is a set of <<directory, file>>.
GlobFrames(disk, d) ==
    {<<e, f>> \in UNION {{<<e, f>> : f \in DOMAIN disk[e]} : e \in DOMAIN disk} :
        /\ GlobSegment(d[1], e[1])
        /\ GlobSegment(d[2], e[2])
        /\ GlobSegment(PngPattern, f)}

Without(files, gone) == [f \in (DOMAIN files) \ gone |-> files[f]]

\* The disk after the body of clear_frame_folder: os.remove of every path the
\* glob returns.
RemoveFrames(disk, d) ==
    LET hits == GlobFrames(disk, d)
    IN [e \in DOMAIN disk |-> Without(disk[e], {f \in DOMAIN disk[e] : <<e, f>> \in hits})]

\* os.makedirs(..., exist_ok=True) of the frame directory.
MakeDirs(disk, d) == IF d \in DOMAIN disk THEN disk ELSE disk @@ (d :> << >>)

Files(d) == IF d \in DOMAIN fs THEN DOMAIN fs[d] ELSE {}

----------------------------------------------------------------------------
(* The state machine *)

Init ==
    /\ fs = << >>
    /\ palette_png = << >>
    /\ figs = << >>
    /\ vg = NoInstance
    /\ caller_scheme = DefaultScheme
    /\ printed = 0
    /\ cleared = FALSE
    /\ next_id = 1
    /\ pc = "idle"
    /\ pv = NoCall
    /\ last = "none"
    /\ probe = NoProbe

\* VideoGenerator(name, colour_scheme, output_folder): the whole constructor,
\* clear_frame_folder and generate_palette included. generate_palette opens a
\* figure of its own and closes it again, so figs is as before.
VideoGenerator(name, colour_scheme, output_folder) ==
    /\ pc = "idle"
    /\ next_id <= MaxInstances
    /\ LET stored == NormaliseScheme(colour_scheme)
           cmap == create_colormap(stored)
           g == [id |-> next_id,
                 name |-> name,
                 output_folder |-> output_folder,
                 frame_count |-> 1,
                 colour_scheme |-> stored,
                 n_colours |-> Cardinality(DOMAIN stored),
                 cmap |-> cmap]
       IN /\ vg' = g
          /\ fs' = RemoveFrames(MakeDirs(fs, FrameDir(g)), FrameDir(g))
          /\ palette_png' =
                 [d \in (DOMAIN palette_png) \cup {FrameDir(g)} |->
                     IF d = FrameDir(g) THEN generate_palette(g.cmap, g.n_colours)
                     ELSE palette_png[d]]
    /\ printed' = 0
    /\ cleared' = FALSE
    /\ next_id' = next_id + 1
    /\ pv' = NoCall
    /\ last' = "construct"
    /\ UNCHANGED <<figs, caller_scheme, pc, probe>>

\* draw_frame(frame) for a one-cell frame [[cell]]: a new figure holding the
\* rasterised grid becomes the current figure.
draw_frame(cell) ==
    /\ pc = "idle"
    /\ vg # NoInstance
    /\ Len(figs) < MaxFigs
    /\ figs' = Append(figs, [image |-> <<<<CmapInt(vg.cmap, cell)>>>>, lines |-> 0])
    /\ last' = "draw_frame"
    /\ UNCHANGED <<fs, palette_png, vg, caller_scheme, printed, cleared, next_id, pc, pv, probe>>

\* draw_line(x, y): plt.plot draws on the current figure, which pyplot opens
\* when there is none.
draw_line ==
    /\ pc = "idle"
    /\ vg # NoInstance
    /\ IF figs = << >>
       THEN figs' = <<[image |-> << >>, lines |-> 1]>>
       ELSE /\ figs[Len(figs)].lines < MaxLines
            /\ figs' = [figs EXCEPT ![Len(figs)].lines = @ + 1]
    /\ last' = "draw_line"
    /\ UNCHANGED <<fs, palette_png, vg, caller_scheme, printed, cleared, next_id, pc, pv, probe>>

print_frameMut ==
    /\ pc = "idle"
    /\ vg # NoInstance
    /\ vg.frame_count <= MaxFrames
    /\ fs' = [fs EXCEPT ![FrameDir(vg)] = (FrameFileName(vg.frame_count) :> vg.id) @@ @]
    /\ vg' = [vg EXCEPT !.frame_count = @ + 2]
    /\ printed' = printed + 1
    /\ figs' = IF figs = << >> THEN << >> ELSE SubSeq(figs, 1, Len(figs) - 1)
    /\ last' = "print_frame"
    /\ UNCHANGED <<palette_png, caller_scheme, cleared, next_id, pc, pv, probe>>

\* print_frame(): savefig of the current figure under the counter's name, the
\* counter raised, the current figure closed.
print_frame ==
    /\ pc = "idle"
    /\ vg # NoInstance
    /\ vg.frame_count <= MaxFrames
    /\ fs' = [fs EXCEPT ![FrameDir(vg)] = (FrameFileName(vg.frame_count) :> vg.id) @@ @]
    /\ vg' = [vg EXCEPT !.frame_count = @ + 1]
    /\ printed' = printed + 1
    /\ figs' = IF figs = << >> THEN << >> ELSE SubSeq(figs, 1, Len(figs) - 1)
    /\ last' = "print_frame"
    /\ UNCHANGED <<palette_png, caller_scheme, cleared, next_id, pc, pv, probe>>

\* clear_frame_folder(), called by the caller itself.
clear_frame_folder ==
    /\ pc = "idle"
    /\ vg # NoInstance
    /\ fs' = RemoveFrames(fs, FrameDir(vg))
    /\ cleared' = TRUE
    /\ last' = "clear_frame_folder"
    /\ UNCHANGED <<palette_png, figs, vg, caller_scheme, printed, next_id, pc, pv, probe>>

\* What one run of the encoder can come to: it ran and exited 0, it ran and
\* exited with a failure status, or there is no such binary to run.
Outcomes == {"ok", "failed", "absent"}

subprocess_callMut(outcome) == IF outcome = "ok" THEN "returns" ELSE "raises"

\* subprocess.call(argv): returns the exit status, whatever it is; raises
\* FileNotFoundError when the program named by argv[0] does not exist.
subprocess_call(outcome) == IF outcome = "absent" THEN "raises" ELSE "returns"

PrintVideoPalettegenMut(clear_frames, outcome) ==
    /\ pc = "idle"
    /\ vg # NoInstance
    /\ LET call == [clear_frames |-> clear_frames,
                    before |-> Files(FrameDir(vg)),
                    palettegen |-> outcome,
                    assemble |-> "notrun",
                    consumed |-> {},
                    log |-> << >>,
                    result |-> "running"]
       IN IF subprocess_call(outcome) = "raises"
          THEN /\ pv' = [call EXCEPT !.result = "raised"]
               /\ pc' = "idle"
               /\ last' = "print_video"
          ELSE /\ pv' = [call EXCEPT !.log = <<"palettegen">>]
               /\ pc' = "assemble"
               /\ last' = last
    /\ fs' = IF clear_frames THEN RemoveFrames(fs, FrameDir(vg)) ELSE fs
    /\ UNCHANGED <<palette_png, figs, vg, caller_scheme, printed, cleared, next_id, probe>>

\* print_video(framerate, clear_frames), up to the first subprocess.call:
\* ffmpeg -i generated_palette.png -vf palettegen palette.png. The frame rate
\* only goes into the second command line.
PrintVideoPalettegen(clear_frames, outcome) ==
    /\ pc = "idle"
    /\ vg # NoInstance
    /\ LET call == [clear_frames |-> clear_frames,
                    before |-> Files(FrameDir(vg)),
                    palettegen |-> outcome,
                    assemble |-> "notrun",
                    consumed |-> {},
                    log |-> << >>,
                    result |-> "running"]
       IN IF subprocess_call(outcome) = "raises"
          THEN /\ pv' = [call EXCEPT !.result = "raised"]
               /\ pc' = "idle"
               /\ last' = "print_video"
          ELSE /\ pv' = [call EXCEPT !.log = <<"palettegen">>]
               /\ pc' = "assemble"
               /\ last' = last
    /\ UNCHANGED <<fs, palette_png, figs, vg, caller_scheme, printed, cleared, next_id, probe>>

\* The second subprocess.call: ffmpeg -framerate r -i frames/%09d.png
\* -i palette.png -filter_complex paletteuse name.gif, reading the frame files
\* that are there, and the test of clear_frames after it.
PrintVideoAssemble(outcome) ==
    /\ pc = "assemble"
    /\ LET call == [pv EXCEPT !.assemble = outcome]
       IN IF subprocess_call(outcome) = "raises"
          THEN /\ pv' = [call EXCEPT !.result = "raised"]
               /\ pc' = "idle"
               /\ last' = "print_video"
          ELSE /\ pv' = [call EXCEPT !.log = Append(@, "assemble"),
                                     !.consumed = Files(FrameDir(vg)),
                                     !.result = IF pv.clear_frames THEN "running" ELSE "returned"]
               /\ pc' = IF pv.clear_frames THEN "clear" ELSE "idle"
               /\ last' = IF pv.clear_frames THEN last ELSE "print_video"
    /\ UNCHANGED <<fs, palette_png, figs, vg, caller_scheme, printed, cleared, next_id, probe>>

\* if clear_frames: self.clear_frame_folder(), and the return.
PrintVideoClear ==
    /\ pc = "clear"
    /\ fs' = RemoveFrames(fs, FrameDir(vg))
    /\ pv' = [pv EXCEPT !.log = Append(@, "clear"), !.result = "returned"]
    /\ pc' = "idle"
    /\ last' = "print_video"
    /\ UNCHANGED <<palette_png, figs, vg, caller_scheme, printed, cleared, next_id, probe>>

Next ==
    \/ \E name \in Names, folder \in Folders : VideoGenerator(name, caller_scheme, folder)
    \/ \E cell \in 0..MaxCell : draw_frame(cell)
    \/ draw_line
    \/ print_frame
    \/ clear_frame_folder
    \/ \E clear_frames \in BOOLEAN, outcome \in Outcomes :
           PrintVideoPalettegen(clear_frames, outcome)
    \/ \E outcome \in Outcomes : PrintVideoAssemble(outcome)
    \/ PrintVideoClear

Spec == Init /\ [][Next]_vars

----------------------------------------------------------------------------
(* The colour table alone: the constructor applied to every colour scheme    *)
(* of the bounded set.                                                        *)

InitColour ==
    /\ fs = << >>
    /\ palette_png = << >>
    /\ figs = << >>
    /\ vg = NoInstance
    /\ caller_scheme \in Schemes
    /\ printed = 0
    /\ cleared = FALSE
    /\ next_id = 1
    /\ pc = "idle"
    /\ pv = NoCall
    /\ last = "none"
    /\ probe = NoProbe

NextColour ==
    \E name \in Names, folder \in Folders : VideoGenerator(name, caller_scheme, folder)

SpecColour == InitColour /\ [][NextColour]_vars

(* The frame file names alone: the names of two frame numbers, drawn from    *)
(* the sampled numbers.                                                       *)

InitFmt ==
    /\ fs = << >>
    /\ palette_png = << >>
    /\ figs = << >>
    /\ vg = NoInstance
    /\ caller_scheme = DefaultScheme
    /\ printed = 0
    /\ cleared = FALSE
    /\ next_id = 1
    /\ pc = "idle"
    /\ pv = NoCall
    /\ last = "none"
    /\ probe \in [i : FrameSamples, j : FrameSamples, out : {<< >>}]

FormatNames ==
    /\ probe.out = << >>
    /\ probe' = [probe EXCEPT !.out = <<FrameFileName(probe.i), FrameFileName(probe.j)>>]
    /\ UNCHANGED <<fs, palette_png, figs, vg, caller_scheme, printed, cleared, next_id, pc, pv, last>>

NextFmt == FormatNames

SpecFmt == InitFmt /\ [][NextFmt]_vars

----------------------------------------------------------------------------
(* Properties *)

OwnFiles == Files(FrameDir(vg))

LiteralPath == ~HasMagic(vg.output_folder) /\ ~HasMagic(vg.name)

\* C1: frame_count is 1 plus the number of print_frame calls completed on the
\* instance: 1 after construction, one more after each print_frame, and the
\* same after draw_frame, draw_line and every step of print_video.
C1_FrameCount == vg # NoInstance => vg.frame_count = 1 + printed

C1_Witness ==
    /\ vg # NoInstance
    /\ printed = 2
    /\ last = "print_video"
    /\ pv.result = "returned"
    /\ pv.clear_frames

\* C2 as stated: a print_video call never raises to its caller, whether the
\* encoder binary is absent or an encoder run fails.
C2_NeverRaises == pv.result # "raised"

\* C2, amended: a finished print_video call has raised exactly when one of its
\* encoder invocations found no binary to run; an invocation that ran and
\* failed does not keep the call from returning normally.
C2_RaisesOnlyWhenAbsent ==
    (pv # NoCall /\ pv.result # "running") =>
        /\ pv.result \in {"returned", "raised"}
        /\ pv.result = "raised" <=> "absent" \in {pv.palettegen, pv.assemble}

C2_Witness ==
    /\ pv # NoCall
    /\ pv.result = "returned"
    /\ pv.palettegen = "failed"
    /\ pv.assemble = "failed"

\* C3: inside print_video the palette run completes first, the assembly run
\* second and the frame files are deleted last, only when clear_frames is
\* true: the assembly run reads every frame file that was there when the call
\* began, and during the call and at its return a frame file of before the
\* call is missing only once both runs have returned, whatever their exit
\* status.
C3_StepOrder ==
    pv # NoCall =>
        /\ \E n \in 0..3 : pv.log = SubSeq(<<"palettegen", "assemble", "clear">>, 1, n)
        /\ Len(pv.log) = 3 => pv.clear_frames
        /\ pv.assemble \in {"ok", "failed"} => pv.consumed = pv.before
        /\ ((pc # "idle" \/ last = "print_video") /\ ~(pv.before \subseteq OwnFiles)) =>
               Len(pv.log) = 3
        /\ pc = "assemble" <=> (pv.result = "running" /\ Len(pv.log) = 1)
        /\ pc = "clear" <=> (pv.result = "running" /\ Len(pv.log) = 2)

C3_Witness ==
    /\ pc = "clear"
    /\ pv.palettegen = "failed"
    /\ pv.assemble = "failed"
    /\ Cardinality(pv.before) = 2
    /\ pv.before \subseteq OwnFiles

\* C4 as stated: when print_video has returned, the frame directory is empty
\* if clear_frames was true, and still holds every frame file of before the
\* call if it was false.
C4_ClearedOrKept ==
    (pv # NoCall /\ last = "print_video" /\ pv.result = "returned") =>
        IF pv.clear_frames THEN OwnFiles = {} ELSE pv.before \subseteq OwnFiles

\* C4 for a path that holds no glob pattern character.
C4_LiteralPath ==
    (pv # NoCall /\ last = "print_video" /\ pv.result = "returned" /\ LiteralPath) =>
        IF pv.clear_frames THEN OwnFiles = {} ELSE pv.before \subseteq OwnFiles

\* C5 as stated: when a constructor has completed, no frame file written by
\* an earlier instance is left in the new instance's frame directory, and the
\* new instance's counter is 1.
C5_NoEarlierFrames ==
    (vg # NoInstance /\ last = "construct") =>
        /\ \A f \in OwnFiles : fs[FrameDir(vg)][f] >= vg.id
        /\ vg.frame_count = 1

\* C5 for a path that holds no glob pattern character.
C5_LiteralPath ==
    (vg # NoInstance /\ last = "construct" /\ LiteralPath) =>
        /\ OwnFiles = {}
        /\ vg.frame_count = 1

\* C6: the colour table has max(keys) + 1 entries; entry i is the stored
\* (normalised) scheme value when i is a key and (0, 0, 0) when it is not.
C6_ColourTable ==
    vg # NoInstance =>
        LET keys == DOMAIN caller_scheme
        IN /\ \E m \in keys : (\A k \in keys : k <= m) /\ Len(vg.cmap) = m + 1
           /\ \A i \in 0..(Len(vg.cmap) - 1) :
                 vg.cmap[i + 1] = IF i \in keys THEN vg.colour_scheme[i] ELSE Tuple(0, 0, 0)
           /\ \A k \in keys : k + 1 \in DOMAIN vg.cmap

C6_Witness ==
    /\ vg # NoInstance
    /\ DOMAIN caller_scheme = {1, 3}
    /\ caller_scheme[1] = Tuple(51, 102, 204)
    /\ Len(vg.cmap) = 4
    /\ vg.cmap[3] = Tuple(0, 0, 0)
    /\ vg.cmap[2] # Tuple(0, 0, 0)

\* The stored value st is the scheme value given divided by 255, component by
\* component, when that is a tuple, and the value given otherwise.
IsNormalised(given, st) ==
    IF given.kind = "tuple"
    THEN /\ st.kind = "tuple"
         /\ DOMAIN st.v = DOMAIN given.v
         /\ \A i \in DOMAIN given.v :
               /\ st.v[i].d > 0
               /\ st.v[i].n * 255 * given.v[i].d = given.v[i].n * st.v[i].d
    ELSE st = given

C7_StoredScheme ==
    vg # NoInstance =>
        /\ DOMAIN vg.colour_scheme = DOMAIN caller_scheme
        /\ \A k \in DOMAIN caller_scheme : IsNormalised(caller_scheme[k], vg.colour_scheme[k])

\* C7: the constructor stores every tuple of the scheme with each component
\* divided by 255 and every other value unchanged, and leaves the caller's
\* mapping as it was.
C7_Normalisation == [](C7_StoredScheme) /\ [][caller_scheme' = caller_scheme]_vars

C7_Witness ==
    /\ vg # NoInstance
    /\ DOMAIN caller_scheme = {0, 2}
    /\ caller_scheme[0] = Tuple(51, 102, 204)
    /\ caller_scheme[2] = Other("red")
    /\ vg.colour_scheme[0].v[1] = [n |-> 1, d |-> 5]
    /\ vg.colour_scheme[2] = Other("red")

\* C8: for frame numbers i and j from 1 to 999,999,999, the file name of
\* frame i sorts before the file name of frame j, character by character,
\* exactly when i < j.
C8_LexOrder ==
    probe.out # << >> =>
        /\ probe.i <= Pow10(9) - 1 /\ probe.j <= Pow10(9) - 1
        /\ LexLess(probe.out[1], probe.out[2]) <=> probe.i < probe.j

C8_Witness ==
    /\ probe.out # << >>
    /\ probe.i = 9
    /\ probe.j = 999999999
    /\ Len(probe.out[1]) = 13

\* The j-th smallest element of a set of numbers.
KeyAt(S, j) == CHOOSE k \in S : Cardinality({x \in S : x < k}) = j - 1

\* C9 as stated: the palette preview is one row with one cell per configured
\* colour, in ascending order of the keys, each cell in the colour-table entry
\* of the key it stands for.
C9_PreviewShowsScheme ==
    vg # NoInstance =>
        LET strip == palette_png[FrameDir(vg)]
            keys == DOMAIN vg.colour_scheme
        IN /\ Len(strip) = Cardinality(keys)
           /\ \A j \in 1..Len(strip) : strip[j] = vg.cmap[KeyAt(keys, j) + 1]

\* C9 for a scheme whose keys are 0, 1, ..., n - 1.
C9_ContiguousKeys ==
    (vg # NoInstance /\ DOMAIN vg.colour_scheme = 0..(vg.n_colours - 1)) =>
        LET strip == palette_png[FrameDir(vg)]
        IN /\ Len(strip) = vg.n_colours
           /\ \A j \in 1..Len(strip) : strip[j] = vg.cmap[j]

\* C10 as stated, for an instance on which only draw_frame, draw_line and
\* print_frame have been called: from construction to the first print_video
\* call, the frame files present are exactly the names of frames
\* 1 .. frame_count - 1, each written by this instance.
C10_ExactFrames ==
    (vg # NoInstance /\ pv = NoCall /\ ~cleared) =>
        /\ OwnFiles = {FrameFileName(k) : k \in 1..(vg.frame_count - 1)}
        /\ \A f \in OwnFiles : fs[FrameDir(vg)][f] = vg.id

\* C10 for a path that holds no glob pattern character.
C10_LiteralPath ==
    (vg # NoInstance /\ pv = NoCall /\ ~cleared /\ LiteralPath) =>
        /\ OwnFiles = {FrameFileName(k) : k \in 1..(vg.frame_count - 1)}
        /\ Cardinality(OwnFiles) = vg.frame_count - 1
        /\ \A f \in OwnFiles : fs[FrameDir(vg)][f] = vg.id

====
